---- MODULE Spec2Model ----
(***************************************************************************)
(* Model of create-modern-react-app (src/index.js).  The file holds two    *)
(* variants of the command-line tool:                                      *)
(*   "confine" : lines 1-203, validateTemplate checks the template         *)
(*               directory on the filesystem (realpath confinement);       *)
(*   "allow"   : lines 205-415, validateTemplate checks an allow-list.     *)
(* JavaScript strings are sequences of one-character strings; the NUL      *)
(* character is written "NUL".  Paths are POSIX paths, modelled as         *)
(* sequences of segments (each segment a string).                          *)
(***************************************************************************)
EXTENDS Integers, Sequences, FiniteSets

VARIABLES
    variant,      \* which of the two programs of src/index.js runs
    pc,           \* position of createProject (between its awaits)
    projectName,  \* createProject's parameter projectName (a JS value)
    template,     \* createProject's local `template` (a JS value)
    answers,      \* the answers object inquirer builds
    attempts,     \* rejected inputs at the project-name prompt so far
    fs,           \* the filesystem: absolute path -> node
    fs0,          \* the filesystem when the process started
    projectPath,  \* createProject's const projectPath, once computed
    err,          \* the error caught from emitter.clone
    log,          \* console output and collaborator calls, in order
    exitCode,     \* the process's exit code, "none" while it runs
    call          \* SpecFn: the last call of a pure function and its result

vars == << variant, pc, projectName, template, answers, attempts, fs, fs0,
           projectPath, err, log, exitCode, call >>

----------------------------------------------------------------------------
(* Bounds of the model *)

\* rejected inputs the user may type at the project-name prompt
MaxAttempts == 1
\* length up to which every string over Alphabet is tried as a raw input
MaxRawLen == 2
\* symlinks realpathSync follows before it reports ELOOP
MaxLinks == 3

----------------------------------------------------------------------------
(* JavaScript strings *)

LowerChars == << "a","b","c","d","e","f","g","h","i","j","k","l","m",
                 "n","o","p","q","r","s","t","u","v","w","x","y","z" >>
UpperChars == << "A","B","C","D","E","F","G","H","I","J","K","L","M",
                 "N","O","P","Q","R","S","T","U","V","W","X","Y","Z" >>
DigitChars == << "0","1","2","3","4","5","6","7","8","9" >>

Range(f) == { f[i] : i \in DOMAIN f }

\* characters String.prototype.trim removes (those the inputs use)
IsSpace(c) == c \in { " ", "\t", "\n" }

\* String.prototype.toLowerCase on one character
ToLowerChar(c) ==
    IF \E i \in DOMAIN UpperChars : UpperChars[i] = c
    THEN LowerChars[CHOOSE i \in DOMAIN UpperChars : UpperChars[i] = c]
    ELSE c

toLowerCase(s) == [ i \in DOMAIN s |-> ToLowerChar(s[i]) ]

RECURSIVE TrimStart(_)
TrimStart(s) ==
    IF s # << >> /\ IsSpace(Head(s)) THEN TrimStart(Tail(s)) ELSE s

RECURSIVE TrimEnd(_)
TrimEnd(s) ==
    IF s # << >> /\ IsSpace(s[Len(s)])
    THEN TrimEnd(SubSeq(s, 1, Len(s) - 1))
    ELSE s

\* String.prototype.trim
trim(s) == TrimEnd(TrimStart(s))

\* s contains "..", a "/" or a NUL character
Crafted(s) ==
    \/ \E i \in DOMAIN s : s[i] \in { "/", "NUL" }
    \/ \E i \in 1..(Len(s) - 1) : s[i] = "." /\ s[i + 1] = "."

\* String.prototype.startsWith
startsWith(s, p) == Len(s) >= Len(p) /\ SubSeq(s, 1, Len(p)) = p

\* /^[a-z0-9-]+$/.test(s)
TemplateNameRegex(s) ==
    /\ s # << >>
    /\ \A i \in DOMAIN s :
          s[i] \in Range(LowerChars) \cup Range(DigitChars) \cup { "-" }

\* /^[a-zA-Z0-9-_]+$/.test(s): in the class, "-" after the range 0-9 is a
\* literal, so the class is letters, digits, "-" and "_"
ProjectNameRegex(s) ==
    /\ s # << >>
    /\ \A i \in DOMAIN s :
          s[i] \in Range(LowerChars) \cup Range(UpperChars)
                   \cup Range(DigitChars) \cup { "-", "_" }

----------------------------------------------------------------------------
(* JavaScript values: t is the typeof-like tag; s the characters of a      *)
(* string; n the number (or 0/1 of a boolean).                             *)

Undefined == [ t |-> "undefined", s |-> << >>, n |-> 0 ]
Null      == [ t |-> "null", s |-> << >>, n |-> 0 ]
Str(s)    == [ t |-> "string", s |-> s, n |-> 0 ]
Num(n)    == [ t |-> "number", s |-> << >>, n |-> n ]
Bool(b)   == [ t |-> "boolean", s |-> << >>, n |-> IF b THEN 1 ELSE 0 ]
Obj       == [ t |-> "object", s |-> << >>, n |-> 0 ]

\* ToBoolean(v), as in `!v` and `a || b`
Truthy(v) ==
    CASE v.t = "undefined" -> FALSE
      [] v.t = "null"      -> FALSE
      [] v.t = "string"    -> v.s # << >>
      [] v.t = "number"    -> v.n # 0
      [] v.t = "boolean"   -> v.n = 1
      [] OTHER             -> TRUE

\* a || b
Or(a, b) == IF Truthy(a) THEN a ELSE b

S_base  == << "b","a","s","e" >>
S_redux == << "r","e","d","u","x" >>

AVAILABLE_TEMPLATES == << S_base, S_redux >>

\* program constant: the longest project name the prompt accepts
MaxNameLen == 50

----------------------------------------------------------------------------
(* Results of the functions that may throw: threw, or the returned string  *)

Return(s) == [ threw |-> FALSE, ret |-> s ]
Throw     == [ threw |-> TRUE, ret |-> << >> ]

\* lines 226-244 without the allow-list test of line 239
validateTemplateAllow_NoList(tpl) ==
    IF ~Truthy(tpl) \/ tpl.t # "string" THEN Return(S_base)
    ELSE LET name == toLowerCase(trim(tpl.s))
         IN  IF ~TemplateNameRegex(name) THEN Return(S_base) ELSE Return(name)

\* validateTemplate of the allow-list variant
validateTemplateAllow(tpl) ==
    IF ~Truthy(tpl) \/ tpl.t # "string" THEN Return(S_base)
    ELSE IF tpl.t # "string" THEN Throw  \* .trim() of a non-string: TypeError
    ELSE LET name == toLowerCase(trim(tpl.s))
         IN  IF ~TemplateNameRegex(name) THEN Return(S_base)
             ELSE IF name \notin Range(AVAILABLE_TEMPLATES) THEN Return(S_base)
             ELSE Return(name)

\* the projectName question's validate of the allow-list variant: "true"
\* stands for the boolean true, any other value is the message returned
validateNameAllow(input) ==
    IF input = << >> \/ trim(input) = << >> THEN "Project name is required"
    ELSE LET name == trim(input)
         IN  IF ~ProjectNameRegex(name)
             THEN "Project name can only contain letters, numbers, hyphens, and underscores"
             ELSE IF Len(name) > MaxNameLen
             THEN "Project name must be 50 characters or less"
             ELSE "true"

\* the projectName question's validate of the confinement variant
validateNameConfine(input) ==
    IF input = << >> \/ trim(input) = << >> THEN "Project name is required"
    ELSE "true"

----------------------------------------------------------------------------
(* POSIX paths (Node's path module) *)

\* s.split("/"), cur being the segment read so far
RECURSIVE SplitAcc(_, _)
SplitAcc(s, cur) ==
    IF s = << >> THEN << cur >>
    ELSE IF Head(s) = "/" THEN << cur >> \o SplitAcc(Tail(s), << >>)
    ELSE SplitAcc(Tail(s), Append(cur, Head(s)))

\* normalisation of an absolute path: "" and "." dropped, ".." pops
RECURSIVE NormalizeAcc(_, _)
NormalizeAcc(segs, acc) ==
    IF segs = << >> THEN acc
    ELSE LET h == Head(segs)
         IN  IF h = << >> \/ h = << "." >> THEN NormalizeAcc(Tail(segs), acc)
             ELSE IF h = << ".", "." >>
             THEN NormalizeAcc(Tail(segs),
                      IF acc = << >> THEN acc ELSE SubSeq(acc, 1, Len(acc) - 1))
             ELSE NormalizeAcc(Tail(segs), Append(acc, h))

pathIsAbsolute(s) == s # << >> /\ s[1] = "/"

\* path.resolve(base, s), base an absolute normalised path
pathResolve(base, s) ==
    NormalizeAcc((IF pathIsAbsolute(s) THEN << >> ELSE base) \o SplitAcc(s, << >>),
                 << >>)

\* path.dirname of an absolute normalised path
pathDirname(p) == IF p = << >> THEN p ELSE SubSeq(p, 1, Len(p) - 1)

\* path.join(p, seg), seg one plain segment
pathJoin(p, seg) == Append(p, seg)

RECURSIVE JoinSegs(_)
JoinSegs(segs) ==
    IF segs = << >> THEN << >>
    ELSE IF Len(segs) = 1 THEN segs[1]
    ELSE segs[1] \o << "/" >> \o JoinSegs(Tail(segs))

\* the string of an absolute path
pathString(p) == << "/" >> \o JoinSegs(p)

RECURSIVE CommonLen(_, _)
CommonLen(a, b) ==
    IF a # << >> /\ b # << >> /\ Head(a) = Head(b)
    THEN 1 + CommonLen(Tail(a), Tail(b))
    ELSE 0

\* path.relative(from, to) of two absolute normalised paths, as a string
pathRelative(from, to) ==
    LET k == CommonLen(from, to)
    IN  JoinSegs([ i \in 1..(Len(from) - k) |-> << ".", "." >> ]
                 \o SubSeq(to, k + 1, Len(to)))

\* p is a or lies below a
IsWithin(a, p) == Len(p) >= Len(a) /\ SubSeq(p, 1, Len(a)) = a

----------------------------------------------------------------------------
(* The filesystem: a function from absolute paths to nodes.  << >> is "/". *)

NoJson      == [ parse |-> "none", hasScripts |-> FALSE, scripts |-> {} ]
BadJson     == [ parse |-> "bad", hasScripts |-> FALSE, scripts |-> {} ]
NullJson    == [ parse |-> "null", hasScripts |-> FALSE, scripts |-> {} ]
\* a manifest that parses to an object without a script table
PlainJson   == [ parse |-> "object", hasScripts |-> FALSE, scripts |-> {} ]
\* a manifest whose script table has the keys ks
ScriptsJson(ks) == [ parse |-> "object", hasScripts |-> TRUE, scripts |-> ks ]

Dir(w)       == [ kind |-> "dir", target |-> << >>, w |-> w, json |-> NoJson ]
File(json)   == [ kind |-> "file", target |-> << >>, w |-> TRUE, json |-> json ]
Link(target) == [ kind |-> "link", target |-> target, w |-> TRUE, json |-> NoJson ]

Resolved(p, touched) == [ threw |-> FALSE, path |-> p, touched |-> touched ]
Failed(touched)      == [ threw |-> TRUE, path |-> << >>, touched |-> touched ]

\* fs.realpathSync: walks the components of the path, following symlinks;
\* throws when a component is missing (ENOENT), lies below a file (ENOTDIR)
\* or the links do not end (ELOOP).  touched: the paths it looked at.
RECURSIVE RealpathRec(_, _, _, _, _)
RealpathRec(f, done, rest, fuel, touched) ==
    IF rest = << >> THEN Resolved(done, touched)
    ELSE LET next == Append(done, Head(rest))
             seen == touched \cup { next }
         IN  IF next \notin DOMAIN f THEN Failed(seen)
             ELSE IF f[next].kind = "link"
             THEN IF fuel = 0 THEN Failed(seen)
                  ELSE RealpathRec(f, << >>, f[next].target \o Tail(rest),
                                   fuel - 1, seen)
             ELSE IF f[next].kind = "file" /\ Tail(rest) # << >> THEN Failed(seen)
             ELSE RealpathRec(f, next, Tail(rest), fuel, seen)

realpathSync(f, p) == RealpathRec(f, << >>, p, MaxLinks, { << >> })

\* fs.existsSync(p): follows symlinks, never throws
existsSync(f, p) == ~realpathSync(f, p).threw

\* fs.statSync(p).isDirectory(), p existing
isDirectory(f, p) == f[realpathSync(f, p).path].kind = "dir"

\* fs.access(p, W_OK) resolves
accessW(f, p) == existsSync(f, p) /\ f[realpathSync(f, p).path].w

\* fs.remove(p): p and everything below it
removeTree(f, p) == [ q \in { q \in DOMAIN f : ~IsWithin(p, q) } |-> f[q] ]

\* the proper prefixes of p and p itself, "/" excluded
Prefixes(p) == { SubSeq(p, 1, k) : k \in 1..Len(p) }

S_packageJson == << "p","a","c","k","a","g","e",".","j","s","o","n" >>

\* what emitter.clone(p) has written when it ends: with partial, the
\* directory p (and its missing parents); when complete, its files too
cloneWrites(f, p, complete) ==
    LET made == { q \in Prefixes(p) : q \notin DOMAIN f }
                \cup (IF complete THEN { pathJoin(p, S_packageJson) } ELSE {})
    IN  [ q \in DOMAIN f \cup made |->
            IF q = pathJoin(p, S_packageJson) THEN File(PlainJson)
            ELSE IF q \in made THEN Dir(TRUE)
            ELSE f[q] ]

----------------------------------------------------------------------------
(* validateTemplate of the confinement variant (lines 22-85) *)

S_pkgs     == << "p","k","g","s" >>
S_cli      == << "c","l","i" >>
S_template == << "t","e","m","p","l","a","t","e","-" >>
S_dotdot   == << ".", "." >>

\* __dirname: the directory of the script, packages/cli
Dirname == << S_pkgs, S_cli >>

\* path.resolve(__dirname, "..")
TemplatesRoot == pathResolve(Dirname, S_dotdot)

lifecycleKeys == << "preinstall", "install", "postinstall", "prepublish", "prepare" >>

\* the result of validateTemplate: the name returned (or threw), the paths
\* given to or looked at by fs functions, and the lifecycle keys the warning
\* lists (<< >>: no warning printed)
VT(ret, touched, found) ==
    [ threw |-> FALSE, ret |-> ret, touched |-> touched, found |-> found ]

\* the scan made blocking: a template that declares hooks is refused
LifecycleScan_Blocking(name, touched, tplPkg) ==
    IF tplPkg.parse = "object" /\ tplPkg.hasScripts
    THEN LET found == SelectSeq(lifecycleKeys, LAMBDA k : k \in tplPkg.scripts)
         IN  VT(IF found # << >> THEN S_base ELSE name, touched, found)
    ELSE VT(name, touched, << >>)

\* lines 55-75 and 84: the lifecycle scan of the parsed manifest tplPkg
LifecycleScan(name, touched, tplPkg) ==
    IF tplPkg.parse = "object" /\ tplPkg.hasScripts
    THEN VT(name, touched,
            SelectSeq(lifecycleKeys, LAMBDA k : k \in tplPkg.scripts))
    ELSE VT(name, touched, << >>)

\* lines 30-84: the try block, name being the trimmed, lower-cased name
ConfineCheck(f, name) ==
    LET resolved == pathResolve(TemplatesRoot, S_template \o name)
        rr == realpathSync(f, TemplatesRoot)
        rs == realpathSync(f, resolved)
    IN  IF rr.threw THEN VT(S_base, rr.touched, << >>)
        ELSE IF rs.threw THEN VT(S_base, rr.touched \cup rs.touched, << >>)
        ELSE
        LET realTemplatesRoot == rr.path
            realResolved == rs.path
            relative == pathRelative(realTemplatesRoot, realResolved)
            t1 == rr.touched \cup rs.touched
            tplPkgPath == pathJoin(realResolved, S_packageJson)
            t2 == t1 \cup realpathSync(f, tplPkgPath).touched
        IN  IF \/ startsWith(relative, S_dotdot)
               \/ /\ pathIsAbsolute(relative)
                  /\ ~startsWith(pathString(realResolved),
                                 pathString(realTemplatesRoot))
            THEN VT(S_base, t1, << >>)
            ELSE IF ~existsSync(f, realResolved) THEN VT(S_base, t1, << >>)
            ELSE IF ~isDirectory(f, realResolved) THEN VT(S_base, t1, << >>)
            ELSE IF ~existsSync(f, tplPkgPath) THEN VT(name, t2, << >>)
            ELSE
            LET node == f[realpathSync(f, tplPkgPath).path]
            IN  \* fs.readJsonSync throws on a directory or on bad JSON
                IF node.kind # "file" \/ node.json.parse \in { "none", "bad" }
                THEN VT(S_base, t2, << >>)
                ELSE LifecycleScan(name, t2, node.json)

\* lines 22-85 without the character-class test of line 27
validateTemplateConfine_NoRegex(f, t) ==
    IF ~Truthy(t) \/ t.t # "string" THEN VT(S_base, {}, << >>)
    ELSE ConfineCheck(f, toLowerCase(trim(t.s)))

validateTemplateConfine(f, t) ==
    IF ~Truthy(t) \/ t.t # "string" THEN VT(S_base, {}, << >>)
    ELSE LET name == toLowerCase(trim(t.s))
         IN  IF ~TemplateNameRegex(name) THEN VT(S_base, {}, << >>)
             ELSE ConfineCheck(f, name)

----------------------------------------------------------------------------
(* Inputs *)

\* the characters the enumerated raw strings are made of
Alphabet == { "a", "B", "-", "_", ".", "/", " ", "NUL" }

RECURSIVE StringsUpTo(_)
StringsUpTo(n) ==
    IF n = 0 THEN { << >> }
    ELSE LET shorter == StringsUpTo(n - 1)
         IN  shorter \cup { Append(s, c) : s \in shorter, c \in Alphabet }

Repeat(c, n) == [ i \in 1..n |-> c ]

S_myapp     == << "m","y","-","a","p","p" >>
S_etc       == << "e","t","c" >>
S_sub       == << "s","u","b" >>
S_undefined == << "u","n","d","e","f","i","n","e","d" >>

\* raw strings chosen for the cases the code distinguishes
ChosenStrings ==
    { S_base, S_redux, S_myapp,
      << "B","a","s","e" >>, << "R","E","D","U","X" >>,
      << " " >> \o S_redux \o << " " >>, << "\t" >> \o S_base \o << "\n" >>,
      << "f","o","o" >>, << "b","a","s","e","2" >>,
      << " " >> \o S_myapp, S_myapp \o << " " >>,
      << "m","y"," ","a","p","p" >>, << "M","y","_","A","p","p","1" >>,
      << ".",".","/",".",".","/" >> \o S_etc,
      << ".",".","/","x" >>,
      << "/" >> \o S_etc,
      << "/",".",".","/",".","." >>,
      << "a","/",".",".","/",".",".","/" >> \o S_etc,
      S_base \o << "/" >> \o S_sub,
      S_base \o << "NUL" >>,
      Repeat("a", MaxNameLen), Repeat("a", MaxNameLen + 1),
      Repeat("a", MaxNameLen) \o << " " >>,
      << " " >> \o Repeat("a", MaxNameLen + 1) }

RawStrings == StringsUpTo(MaxRawLen) \cup ChosenStrings

\* values of every type, for the functions that test the type
RawValues ==
    { Str(s) : s \in RawStrings }
    \cup { Undefined, Null, Num(0), Num(5), Bool(TRUE), Bool(FALSE), Obj }

----------------------------------------------------------------------------
(* Filesystem layouts *)

S_home  == << "h","o","m","e" >>
S_work  == << "w","o","r","k" >>
S_notes == << "n","o","t","e","s" >>
S_nope  == << "n","o","p","e" >>
S_data  == << ".",".","d","a","t","a" >>
S_keep  == << "k","e","e","p" >>

\* process.cwd()
Cwd == << S_home, S_work >>

TplBase == pathJoin(TemplatesRoot, S_template \o S_base)
TplA    == pathJoin(TemplatesRoot, S_template \o << "a" >>)

\* a function from the pairs << path, node >> of a set
FsOf(pairs) ==
    [ q \in { pr[1] : pr \in pairs } |->
        (CHOOSE pr \in pairs : pr[1] = q)[2] ]

\* the directories every layout has; cwdW: the cwd is writable
Skeleton(cwdW) ==
    { << << >>, Dir(TRUE) >>,
      << << S_etc >>, Dir(TRUE) >>,
      << << S_home >>, Dir(TRUE) >>,
      << Cwd, Dir(cwdW) >>,
      << TemplatesRoot, Dir(TRUE) >>,
      << Dirname, Dir(TRUE) >>,
      << pathJoin(TemplatesRoot, S_notes), File(NoJson) >>,
      << pathJoin(TemplatesRoot, S_data), Dir(TRUE) >> }

BaseTemplate ==
    { << TplBase, Dir(TRUE) >>,
      << pathJoin(TplBase, S_sub), Dir(TRUE) >>,
      << pathJoin(TplBase, S_packageJson), File(PlainJson) >> }

Manifests ==
    { BadJson, NullJson, PlainJson, ScriptsJson({}),
      ScriptsJson({ "postinstall" }), ScriptsJson({ "build" }),
      ScriptsJson({ "prepare", "preinstall", "build" }) }

LinkTargets ==
    { << S_etc >>, << >>, TemplatesRoot, TplBase, pathJoin(TplBase, S_sub),
      pathJoin(TemplatesRoot, S_notes), pathJoin(TemplatesRoot, S_data),
      << S_nope >>, TplA }

\* what packages/template-a may be: nothing, a file, a directory without or
\* with a manifest (a file, or a directory named package.json), a symlink
TplAEntries ==
    { {}, { << TplA, File(NoJson) >> }, { << TplA, Dir(TRUE) >> } }
    \cup { { << TplA, Dir(TRUE) >>, << pathJoin(TplA, S_packageJson), File(m) >> } :
           m \in Manifests }
    \cup { { << TplA, Dir(TRUE) >>, << pathJoin(TplA, S_packageJson), Dir(TRUE) >> } }
    \cup { { << TplA, Link(t) >> } : t \in LinkTargets }

\* a directory another run left at a destination
Existing(p) == { << p, Dir(TRUE) >>, << pathJoin(p, S_keep), File(NoJson) >> }

LayoutPairs(entries) ==
    { Skeleton(TRUE) \cup b \cup e : b \in { {}, BaseTemplate }, e \in entries }

TemplateLayouts == { FsOf(l) : l \in LayoutPairs(TplAEntries) }

----------------------------------------------------------------------------
(* SpecFn: the pure functions applied to raw inputs *)

NoErr == [ code |-> "none", message |-> << >> ]

NoCall(raw) == [ fn |-> "none", arg |-> raw, res |-> Return(<< >>) ]

Idle ==
    /\ variant = "none"
    /\ pc = "fn"
    /\ projectName = Undefined
    /\ template = Undefined
    /\ answers = [ projectName |-> Undefined, template |-> Undefined ]
    /\ attempts = 0
    /\ projectPath = << >>
    /\ err = NoErr
    /\ log = << >>
    /\ exitCode = "none"

InitFn ==
    /\ Idle
    /\ fs \in TemplateLayouts
    /\ fs0 = fs
    /\ \E raw \in RawValues : call = NoCall(raw)

UnchangedProgram ==
    UNCHANGED << variant, pc, projectName, template, answers, attempts, fs,
                 fs0, projectPath, err, log, exitCode >>

CallValidateTemplateAllow ==
    /\ call.fn = "none"
    /\ call' = [ fn |-> "validateTemplateAllow", arg |-> call.arg,
                 res |-> validateTemplateAllow(call.arg) ]
    /\ UnchangedProgram

CallValidateTemplateConfine ==
    /\ call.fn = "none"
    /\ call' = [ fn |-> "validateTemplateConfine", arg |-> call.arg,
                 res |-> validateTemplateConfine(fs, call.arg) ]
    /\ UnchangedProgram

\* inquirer hands validate the line the user typed: always a string
CallValidateNameAllow ==
    /\ call.fn = "none"
    /\ call.arg.t = "string"
    /\ call' = [ fn |-> "validateNameAllow", arg |-> call.arg,
                 res |-> Return(validateNameAllow(call.arg.s)) ]
    /\ UnchangedProgram

NextFn ==
    \/ CallValidateTemplateAllow
    \/ CallValidateTemplateConfine
    \/ CallValidateNameAllow

SpecFn == InitFn /\ [][NextFn]_vars

----------------------------------------------------------------------------
(* Spec: one run of createProject, in either variant *)

\* an entry of log: console output ("print"), a collaborator or fs call
\* ("call") or the settling of an awaited call ("result")
Event(ev, msg, arg, res) == [ ev |-> ev, msg |-> msg, arg |-> arg, res |-> res ]
Out(msg, arg) == Event("print", msg, arg, "")
CallEv(fn, arg, res) == Event("call", fn, arg, res)
ResultEv(fn, arg, res) == Event("result", fn, arg, res)

TF(b) == IF b THEN "true" ELSE "false"

\* `${v}` in a template literal
ToStr(v) == IF v.t = "string" THEN v.s ELSE S_undefined

S_dotdot_x == << ".",".","/","x" >>

\* the project-name argument and the --template option commander passes
ArgNames == { Undefined, Str(S_myapp), Str(S_dotdot_x) }
OptTemplates ==
    { Undefined, Str(S_base), Str(S_redux), Str(<< "R","E","D","U","X" >>),
      Str(<< " " >> \o S_redux \o << " " >>), Str(<< "f","o","o" >>),
      Str(<< "a" >>), Str(<< ".",".","/",".",".","/" >> \o S_etc) }

\* lines the user may type at the project-name prompt
NameInputs ==
    { << >>, S_myapp, << " " >> \o S_myapp,
      << "m","y"," ","a","p","p" >>, S_dotdot_x,
      Repeat("a", MaxNameLen + 1), Repeat("a", MaxNameLen) \o << " " >> }

\* destinations that may exist before the run
Destinations == { pathResolve(Cwd, S_myapp), pathResolve(Cwd, S_dotdot_x) }

\* none of them exists, or each of them does
ExistingSets ==
    { UNION { Existing(p) : p \in ps } : ps \in { {}, Destinations } }

\* the layouts of packages/template-a the program runs are tried on
ProgramEntries ==
    { {}, { << TplA, Dir(TRUE) >> },
      { << TplA, Dir(TRUE) >>,
        << pathJoin(TplA, S_packageJson), File(BadJson) >> },
      { << TplA, Dir(TRUE) >>,
        << pathJoin(TplA, S_packageJson), File(ScriptsJson({ "postinstall" })) >> },
      { << TplA, Link(TemplatesRoot) >> },
      { << TplA, Link(<< S_etc >>) >> } }

S_err1 == << "E","1" >>
S_err2 == << "E","2" >>

\* the errors emitter.clone may reject with
FetchErrors ==
    { [ code |-> "COULD_NOT_DOWNLOAD", message |-> S_err1 ],
      [ code |-> "MISSING_REF", message |-> S_err2 ] }

Started ==
    /\ pc = "askName"
    /\ answers = [ projectName |-> Undefined, template |-> Undefined ]
    /\ attempts = 0
    /\ projectPath = << >>
    /\ err = NoErr
    /\ log = << >>
    /\ exitCode = "none"
    /\ call = NoCall(Undefined)
    /\ projectName \in ArgNames
    /\ template \in OptTemplates
    /\ fs0 = fs

InitAllow ==
    /\ variant = "allow"
    /\ \E w \in BOOLEAN, ex \in ExistingSets :
          fs = FsOf(Skeleton(w) \cup BaseTemplate \cup ex)
    /\ Started

InitConfine ==
    /\ variant = "confine"
    /\ \E l \in LayoutPairs(ProgramEntries), ex \in ExistingSets :
          fs = FsOf(l \cup ex)
    /\ Started

Init == InitAllow \/ InitConfine

\* process.exit(code), or the process ending by itself (code "0")
Exit(code) == pc' = "done" /\ exitCode' = code

\* when: () => !projectName
NameQuestionShown == ~Truthy(projectName)

\* when: () => !template || !AVAILABLE_TEMPLATES.includes(template)
TemplateQuestionShown ==
    ~Truthy(template) \/ template.s \notin Range(AVAILABLE_TEMPLATES)

validateName(v, input) ==
    IF v = "allow" THEN validateNameAllow(input) ELSE validateNameConfine(input)

\* the projectName question is skipped
SkipName ==
    /\ pc = "askName"
    /\ ~NameQuestionShown
    /\ pc' = "askTemplate"
    /\ UNCHANGED << variant, projectName, template, answers, attempts, fs, fs0,
                    projectPath, err, log, exitCode, call >>

\* the user types a line at the projectName question; inquirer shows the
\* message and asks again unless validate returned true
AskName(input) ==
    /\ pc = "askName"
    /\ NameQuestionShown
    /\ LET r == validateName(variant, input)
       IN  IF r = "true"
           THEN /\ answers' = [ answers EXCEPT !.projectName = Str(input) ]
                /\ pc' = "askTemplate"
                /\ UNCHANGED << attempts, log >>
           ELSE /\ attempts < MaxAttempts
                /\ attempts' = attempts + 1
                /\ log' = Append(log, Out(r, input))
                /\ UNCHANGED << answers, pc >>
    /\ UNCHANGED << variant, projectName, template, fs, fs0, projectPath, err,
                    exitCode, call >>

\* the template question is skipped
SkipTemplate ==
    /\ pc = "askTemplate"
    /\ ~TemplateQuestionShown
    /\ pc' = "prompted"
    /\ UNCHANGED << variant, projectName, template, answers, attempts, fs, fs0,
                    projectPath, err, log, exitCode, call >>

\* the user picks one of the choices of the template question
AskTemplate(choice) ==
    /\ pc = "askTemplate"
    /\ TemplateQuestionShown
    /\ answers' = [ answers EXCEPT !.template = Str(choice) ]
    /\ pc' = "prompted"
    /\ UNCHANGED << variant, projectName, template, attempts, fs, fs0,
                    projectPath, err, log, exitCode, call >>

\* a question is about to be shown
PromptPending ==
    \/ pc = "askName" /\ NameQuestionShown
    \/ pc = "askTemplate" /\ TemplateQuestionShown

PromptErrorMessage(isTty) ==
    IF isTty THEN "Prompt couldn't be rendered in the current environment"
    ELSE "Something went wrong"


\* lines 389-398 without the process.exit(1) of line 397: the process ends
\* by itself, with code 0
PromptFailAllow_NoExit(isTty) ==
    /\ variant = "allow"
    /\ PromptPending
    /\ log' = Append(log, Out(PromptErrorMessage(isTty), << >>))
    /\ Exit("0")
    /\ UNCHANGED << variant, projectName, template, answers, attempts, fs, fs0,
                    projectPath, err, call >>

\* allow-list variant, lines 389-398: inquirer.prompt rejected
PromptFailAllow(isTty) ==
    /\ variant = "allow"
    /\ PromptPending
    /\ log' = Append(log, Out(PromptErrorMessage(isTty), << >>))
    /\ Exit("1")
    /\ UNCHANGED << variant, projectName, template, answers, attempts, fs, fs0,
                    projectPath, err, call >>

\* confinement variant, lines 177-185: inquirer.prompt rejected; the handler
\* prints and returns, and the process ends by itself with code 0
PromptFailConfine(isTty) ==
    /\ variant = "confine"
    /\ PromptPending
    /\ log' = Append(log, Out(PromptErrorMessage(isTty), << >>))
    /\ Exit("0")
    /\ UNCHANGED << variant, projectName, template, answers, attempts, fs, fs0,
                    projectPath, err, call >>

\* the existence check left out
DestinationCheckSkipped(f, p) == FALSE

\* line 313: fs.existsSync(projectPath)
DestinationTakenAllow(f, p) == existsSync(f, p)

\* line 139: fs.existsSync(projectPath)
DestinationTakenConfine(f, p) == existsSync(f, p)

\* the failure of fs.access ignored
ParentWritable_Always(f, p) == TRUE

\* lines 323-325: fs.access(path.dirname(projectPath), W_OK) resolves
ParentWritable(f, p) == accessW(f, pathDirname(p))

\* the cleanup left out
NeedsCleanup_Never(f, p) == FALSE

\* line 362: fs.existsSync(projectPath) in the catch of the fetch
NeedsCleanup(f, p) == existsSync(f, p)

\* the warning left out
TemplateDiffers_Never(final, tpl) == FALSE

\* lines 291 and 118: finalTemplate !== template
TemplateDiffers(final, tpl) == final # tpl

S_coordAllow == << "f","r","a","a","n","l","o","l","/","t","e","m","p","l",
                   "a","t","e","-","r","e","a","c","t","-" >>
S_coordConfine == << "f","r","a","a","n","l","o","l","/","t","e","m","p","l",
                     "a","t","e","-","b","a","s","e" >>

\* allow-list variant, lines 285-325: from the answers to the call of
\* fs.access
AfterPromptAllow ==
    /\ variant = "allow"
    /\ pc = "prompted"
    /\ LET pn == Or(projectName, answers.projectName)
           tpl == Or(template, answers.template)
           vt == validateTemplateAllow(tpl)
           final == Str(vt.ret)
           pp == pathResolve(Cwd, pn.s)
           taken == DestinationTakenAllow(fs, pp)
       IN  IF vt.threw
           THEN /\ log' = Append(log, Out("Something went wrong", << >>))
                /\ Exit("1")
                /\ UNCHANGED << projectName, template, projectPath >>
           ELSE /\ projectName' = pn
                /\ template' = final
                /\ projectPath' = pp
                /\ log' = log
                     \o << CallEv("validateTemplate", ToStr(tpl), "") >>
                     \o (IF TemplateDiffers(final, tpl)
                         THEN << Out("is not valid. Falling back to 'base'", ToStr(tpl)) >>
                         ELSE << >>)
                     \o << Out("Creating", pn.s),
                           Out("with template", final.s),
                           CallEv("fs.existsSync", pathString(pp), TF(taken)) >>
                     \o (IF taken
                         THEN << Out("already exists", pn.s) >>
                         ELSE << CallEv("fs.access", pathString(pathDirname(pp)), "") >>)
                /\ IF taken THEN Exit("1")
                   ELSE pc' = "access" /\ UNCHANGED exitCode
    /\ UNCHANGED << variant, answers, attempts, fs, fs0, err, call >>

\* allow-list variant, lines 326-344: fs.access settled; up to the call of
\* emitter.clone
AccessResultAllow ==
    /\ variant = "allow"
    /\ pc = "access"
    /\ LET ok == ParentWritable(fs, projectPath)
           dir == pathString(pathDirname(projectPath))
       IN  IF ok
           THEN /\ log' = log \o
                     << ResultEv("fs.access", dir, "ok"),
                        Out("Downloading template...", << >>),
                        CallEv("degit", S_coordAllow \o template.s, ""),
                        CallEv("clone", pathString(projectPath), "") >>
                /\ pc' = "clone"
                /\ UNCHANGED exitCode
           ELSE /\ log' = log \o
                     << ResultEv("fs.access", dir, "fail"),
                        Out("Cannot write to directory", dir) >>
                /\ Exit("1")
    /\ UNCHANGED << variant, projectName, template, answers, attempts, fs, fs0,
                    projectPath, err, call >>

\* lines 377-387: the end of the catch of the fetch
FailTail(e) ==
    << Out("Error details:", e.message) >>
    \o (IF e.code = "COULD_NOT_DOWNLOAD"
        THEN << Out("Could not download template.", << >>) >>
        ELSE << >>)

\* allow-list variant, lines 345-357: emitter.clone resolved
CloneOkAllow ==
    /\ variant = "allow"
    /\ pc = "clone"
    /\ fs' = cloneWrites(fs, projectPath, TRUE)
    /\ log' = log \o
          << ResultEv("clone", pathString(projectPath), "ok"),
             Out("Template downloaded successfully!", << >>),
             Out("created successfully!", projectName.s),
             Out("Next steps:", projectName.s) >>
    /\ Exit("0")
    /\ UNCHANGED << variant, projectName, template, answers, attempts, fs0,
                    projectPath, err, call >>

\* allow-list variant, lines 358-364 (and 377-387 when there is nothing to
\* clean up): emitter.clone rejected with e, having written the
\* destination (partial) or nothing
CloneFailAllow(e, partial) ==
    /\ variant = "allow"
    /\ pc = "clone"
    /\ fs' = IF partial THEN cloneWrites(fs, projectPath, FALSE) ELSE fs
    /\ err' = e
    /\ LET there == NeedsCleanup(fs', projectPath)
           head == << ResultEv("clone", pathString(projectPath), "fail"),
                      Out("Failed to download template.", << >>),
                      CallEv("fs.existsSync", pathString(projectPath), TF(there)) >>
       IN  IF there
           THEN /\ log' = log \o head
                     \o << CallEv("fs.remove", pathString(projectPath), "") >>
                /\ pc' = "remove"
                /\ UNCHANGED exitCode
           ELSE /\ log' = log \o head \o FailTail(e)
                /\ Exit("1")
    /\ UNCHANGED << variant, projectName, template, answers, attempts, fs0,
                    projectPath, call >>

\* lines 364-387 without the try/catch around fs.remove: its failure
\* reaches the outer catch of lines 389-398
RemoveResultAllow_Unguarded(ok) ==
    /\ variant = "allow"
    /\ pc = "remove"
    /\ fs' = IF ok THEN removeTree(fs, projectPath) ELSE fs
    /\ log' = log
          \o << ResultEv("fs.remove", pathString(projectPath),
                         IF ok THEN "ok" ELSE "fail") >>
          \o (IF ok
              THEN << Out("Cleaned up partially created project directory.", << >>) >>
                   \o FailTail(err)
              ELSE << Out("Something went wrong", << >>) >>)
    /\ Exit("1")
    /\ UNCHANGED << variant, projectName, template, answers, attempts, fs0,
                    projectPath, err, call >>

\* allow-list variant, lines 364-387: fs.remove settled
RemoveResultAllow(ok) ==
    /\ variant = "allow"
    /\ pc = "remove"
    /\ fs' = IF ok THEN removeTree(fs, projectPath) ELSE fs
    /\ log' = log
          \o << ResultEv("fs.remove", pathString(projectPath),
                         IF ok THEN "ok" ELSE "fail"),
                IF ok
                THEN Out("Cleaned up partially created project directory.", << >>)
                ELSE Out("Warning: Could not clean up directory", projectName.s) >>
          \o FailTail(err)
    /\ Exit("1")
    /\ UNCHANGED << variant, projectName, template, answers, attempts, fs0,
                    projectPath, err, call >>

\* confinement variant, lines 114-169: from the answers to the call of
\* emitter.clone
AfterPromptConfine ==
    /\ variant = "confine"
    /\ pc = "prompted"
    /\ LET pn == Or(projectName, answers.projectName)
           vt == validateTemplateConfine(fs, template)
           final == Str(vt.ret)
           pp == pathResolve(Cwd, pn.s)
           taken == DestinationTakenConfine(fs, pp)
           templatePath == pathResolve(Dirname,
                               S_dotdot \o << "/" >> \o S_template \o final.s)
           found == existsSync(fs, templatePath)
           head == << Out("answers", << >>),
                      CallEv("validateTemplate", ToStr(template), "") >>
                   \o (IF vt.found # << >>
                       THEN << Out("declares lifecycle scripts", vt.found) >>
                       ELSE << >>)
                   \o (IF TemplateDiffers(final, template)
                       THEN << Out("is not valid. Falling back to 'base'",
                                   ToStr(template)) >>
                       ELSE << >>)
                   \o << Out("Creating", pn.s),
                         Out("with template", final.s),
                         CallEv("fs.existsSync", pathString(pp), TF(taken)) >>
       IN  /\ projectName' = pn
           /\ template' = final
           /\ projectPath' = pp
           /\ IF taken
              THEN /\ log' = log \o head \o << Out("already exists", pn.s) >>
                   /\ Exit("1")
              ELSE IF ~found
              THEN /\ log' = log \o head
                        \o << CallEv("fs.existsSync", pathString(templatePath), "false"),
                              Out("Template does not exist", final.s) >>
                   /\ Exit("1")
              ELSE /\ log' = log \o head
                        \o << CallEv("fs.existsSync", pathString(templatePath), "true"),
                              Out("paths", pathString(pp)),
                              Out("Downloading template...", << >>),
                              CallEv("degit", S_coordConfine, ""),
                              CallEv("clone", pathString(pp), "") >>
                   /\ pc' = "clone"
                   /\ UNCHANGED exitCode
    /\ UNCHANGED << variant, answers, attempts, fs, fs0, err, call >>

\* confinement variant, line 170: emitter.clone resolved; the process ends
\* by itself
CloneOkConfine ==
    /\ variant = "confine"
    /\ pc = "clone"
    /\ fs' = cloneWrites(fs, projectPath, TRUE)
    /\ log' = log \o
          << ResultEv("clone", pathString(projectPath), "ok"),
             Out("Template downloaded!", << >>) >>
    /\ Exit("0")
    /\ UNCHANGED << variant, projectName, template, answers, attempts, fs0,
                    projectPath, err, call >>

\* confinement variant, lines 171-175: emitter.clone rejected
CloneFailConfine(e, partial) ==
    /\ variant = "confine"
    /\ pc = "clone"
    /\ fs' = IF partial THEN cloneWrites(fs, projectPath, FALSE) ELSE fs
    /\ err' = e
    /\ log' = log \o
          << ResultEv("clone", pathString(projectPath), "fail"),
             Out("Failed to download template.", << >>),
             Out("console.error", e.message) >>
    /\ Exit("1")
    /\ UNCHANGED << variant, projectName, template, answers, attempts, fs0,
                    projectPath, call >>

Next ==
    \/ SkipName
    \/ \E input \in NameInputs : AskName(input)
    \/ SkipTemplate
    \/ \E choice \in Range(AVAILABLE_TEMPLATES) : AskTemplate(choice)
    \/ \E isTty \in BOOLEAN : PromptFailAllow(isTty)
    \/ \E isTty \in BOOLEAN : PromptFailConfine(isTty)
    \/ AfterPromptAllow
    \/ AccessResultAllow
    \/ CloneOkAllow
    \/ \E e \in FetchErrors, partial \in BOOLEAN : CloneFailAllow(e, partial)
    \/ \E ok \in BOOLEAN : RemoveResultAllow(ok)
    \/ AfterPromptConfine
    \/ CloneOkConfine
    \/ \E e \in FetchErrors, partial \in BOOLEAN : CloneFailConfine(e, partial)

Spec == Init /\ [][Next]_vars

----------------------------------------------------------------------------
(* SpecSignal: a run of createProject that a termination signal may end    *)
(* while emitter.clone is pending                                          *)

\* allow-list variant, lines 335-344: SIGINT or SIGTERM arrives while
\* await emitter.clone(projectPath) is pending.  The file installs no
\* handler (no process.on anywhere), so Node ends the process at once:
\* the catch of lines 358-388 does not run; what clone has written so far
\* (partial: the destination directory) stays
InterruptFetchAllow(partial) ==
    /\ variant = "allow"
    /\ pc = "clone"
    /\ fs' = IF partial THEN cloneWrites(fs, projectPath, FALSE) ELSE fs
    /\ log' = log \o << Event("signal", "SIGINT", << >>, TF(partial)) >>
    /\ Exit("SIGINT")
    /\ UNCHANGED << variant, projectName, template, answers, attempts, fs0,
                    projectPath, err, call >>

NextSignal ==
    \/ Next
    \/ \E partial \in BOOLEAN : InterruptFetchAllow(partial)

SpecSignal == Init /\ [][NextSignal]_vars

----------------------------------------------------------------------------
(* SpecRace: a run of createProject beside another process that may        *)
(* create the destination once the existence check has passed              *)

\* the filesystem f after another process has made the directory p with a
\* file of its own in it
createdByOther(f, p) ==
    [ q \in DOMAIN f \cup { p, pathJoin(p, S_keep) } |->
        IF q = p THEN Dir(TRUE)
        ELSE IF q = pathJoin(p, S_keep) THEN File(NoJson)
        ELSE f[q] ]

\* allow-list variant: between fs.existsSync of line 313 and the end of
\* emitter.clone of line 344 (force: true, line 341) the run holds no lock
\* on the destination; another process creates it
OtherCreatesDestination ==
    /\ variant = "allow"
    /\ pc \in { "access", "clone" }
    /\ ~existsSync(fs, projectPath)
    /\ existsSync(fs, pathDirname(projectPath))
    /\ fs' = createdByOther(fs, projectPath)
    /\ log' = log \o << Event("other", "mkdir", pathString(projectPath), pc) >>
    /\ UNCHANGED << variant, pc, projectName, template, answers, attempts,
                    fs0, projectPath, err, exitCode, call >>

NextRace ==
    \/ Next
    \/ OtherCreatesDestination

SpecRace == Init /\ [][NextRace]_vars

----------------------------------------------------------------------------
(* Claims about createProject, checked under Spec *)

\* log has an entry of kind ev named msg
Logged(ev, msg) ==
    \E i \in DOMAIN log : log[i].ev = ev /\ log[i].msg = msg

\* log has an entry of kind ev named msg with result res
LoggedRes(ev, msg, res) ==
    \E i \in DOMAIN log : log[i].ev = ev /\ log[i].msg = msg /\ log[i].res = res

\* the destination guard has run its existence check
Guarded == Logged("call", "fs.existsSync")

\* emitter.clone has been called
FetchInvoked == Logged("call", "clone")

FetchFailed == LoggedRes("result", "clone", "fail")
FetchSucceeded == LoggedRes("result", "clone", "ok")

\* C1: in both variants, if the destination path exists when the guard
\* runs, the run exits with a non-zero code and emitter.clone is never
\* called.  (Nothing is written before the guard: the filesystem the guard
\* sees is fs0.)
C1_ExistingDestinationAborts ==
    (Guarded /\ existsSync(fs0, projectPath)) =>
        /\ pc = "done"
        /\ exitCode = "1"
        /\ ~FetchInvoked
        /\ fs = fs0

\* C1 witness: a run of the confinement variant ended at the guard
C1_Witness ==
    /\ variant = "confine"
    /\ Guarded
    /\ existsSync(fs0, projectPath)
    /\ Logged("print", "already exists")
    /\ exitCode = "1"

\* C2: allow-list variant: when emitter.clone failed, at exit the
\* destination does not exist, unless the removal failed and the "Could not
\* clean up directory" warning was printed.
C2_RollbackOnFetchFailure ==
    (variant = "allow" /\ pc = "done" /\ FetchFailed) =>
        \/ ~existsSync(fs, projectPath)
        \/ /\ LoggedRes("result", "fs.remove", "fail")
           /\ Logged("print", "Warning: Could not clean up directory")

\* C2 witness: the failed fetch left a partial directory, which was removed
C2_Witness ==
    /\ variant = "allow"
    /\ pc = "done"
    /\ FetchFailed
    /\ LoggedRes("call", "fs.existsSync", "true")
    /\ LoggedRes("result", "fs.remove", "ok")
    /\ ~existsSync(fs, projectPath)

\* C3: allow-list variant: the existence check, then the writability check,
\* have both passed before emitter.clone (or degit) is called and before
\* anything is written; with an unwritable parent directory the run exits
\* non-zero, without a fetch and without a write.
C3_GuardBeforeFetch ==
    variant = "allow" =>
        /\ \A i \in DOMAIN log :
              (log[i].ev = "call" /\ log[i].msg \in { "degit", "clone" }) =>
                  \E j, k \in 1..(i - 1) :
                      /\ j < k
                      /\ log[j] = CallEv("fs.existsSync",
                                         pathString(projectPath), "false")
                      /\ log[k] = ResultEv("fs.access",
                                    pathString(pathDirname(projectPath)), "ok")
        /\ FetchInvoked =>
              /\ ~existsSync(fs0, projectPath)
              /\ accessW(fs0, pathDirname(projectPath))
        /\ fs # fs0 => FetchInvoked
        /\ (/\ Guarded
            /\ pc \notin { "access" }
            /\ ~existsSync(fs0, projectPath)
            /\ ~accessW(fs0, pathDirname(projectPath))) =>
              /\ pc = "done"
              /\ exitCode = "1"
              /\ ~FetchInvoked
              /\ fs = fs0

\* C3 witness: the parent directory was not writable and the run ended
C3_Witness ==
    /\ variant = "allow"
    /\ pc = "done"
    /\ exitCode = "1"
    /\ LoggedRes("result", "fs.access", "fail")
    /\ Logged("print", "Cannot write to directory")
    /\ ~FetchInvoked

\* C5: allow-list variant: on every run that reaches the guard the project
\* name is non-empty, matches ^[a-zA-Z0-9_-]+$, is at most 50 characters
\* long and has no path separator or "..", so that the destination is a
\* direct child of the current working directory.
C5_ProjectNameIsOneSegment ==
    (variant = "allow" /\ Guarded) =>
        /\ projectName.t = "string"
        /\ ProjectNameRegex(projectName.s)
        /\ Len(projectName.s) <= MaxNameLen
        /\ ~Crafted(projectName.s)
        /\ pathDirname(projectPath) = Cwd
        /\ projectPath = pathJoin(Cwd, projectName.s)

\* one of the fatal cases has been reported
FatalReported ==
    \/ Logged("print", "already exists")
    \/ Logged("print", "Cannot write to directory")
    \/ FetchFailed
    \/ Logged("print", PromptErrorMessage(TRUE))
    \/ Logged("print", PromptErrorMessage(FALSE))

\* C9: allow-list variant: a run ends with code 0 only after emitter.clone
\* succeeded, and with code 1 in every fatal case (destination exists,
\* parent not writable, fetch failed, prompt failed).
C9_ExitCodes ==
    (variant = "allow" /\ pc = "done") =>
        /\ exitCode \in { "0", "1" }
        /\ exitCode = "0" => (FetchSucceeded /\ ~FatalReported)
        /\ FatalReported => exitCode = "1"
        /\ (Guarded /\ existsSync(fs0, projectPath)) => exitCode = "1"
        /\ (Guarded /\ ~accessW(fs0, pathDirname(projectPath))) => exitCode = "1"

\* C9 witness: the prompt could not be rendered and the run ended with 1
C9_Witness ==
    /\ variant = "allow"
    /\ pc = "done"
    /\ Logged("print", PromptErrorMessage(TRUE))
    /\ exitCode = "1"

\* C10: confinement variant: when the prompt cannot be rendered
\* (isTtyError) the run aborts with the message and a non-zero exit code,
\* and no fetch is attempted.
C10_PromptUnavailableIsFatal ==
    (variant = "confine" /\ pc = "done"
        /\ Logged("print", PromptErrorMessage(TRUE))) =>
        /\ exitCode = "1"
        /\ ~FetchInvoked

\* the argument of the call of validateTemplate, once it is logged
SuppliedTemplate ==
    log[CHOOSE i \in DOMAIN log :
            log[i].ev = "call" /\ log[i].msg = "validateTemplate"].arg

\* the first index of log holding an entry of kind ev named msg (0: none)
FirstIndex(ev, msg) ==
    IF Logged(ev, msg)
    THEN CHOOSE i \in DOMAIN log :
            /\ log[i].ev = ev /\ log[i].msg = msg
            /\ \A j \in 1..(i - 1) : ~(log[j].ev = ev /\ log[j].msg = msg)
    ELSE 0

FallbackWarning == "is not valid. Falling back to 'base'"

\* C12: allow-list variant: whenever validateTemplate substitutes the
\* fallback for the template supplied, the warning naming the supplied
\* value is printed before emitter.clone is called, and the run goes on to
\* the destination guard.
C12_FallbackWarnedBeforeFetch ==
    (/\ variant = "allow"
     /\ Logged("call", "validateTemplate")
     /\ template = Str(S_base)
     /\ SuppliedTemplate # S_base) =>
        /\ \E i \in DOMAIN log : log[i] = Out(FallbackWarning, SuppliedTemplate)
        /\ FetchInvoked =>
              FirstIndex("print", FallbackWarning) < FirstIndex("call", "clone")
        /\ Guarded
        /\ FirstIndex("print", FallbackWarning) < FirstIndex("call", "fs.existsSync")

\* C12 witness: "foo" was replaced by "base", and the fetch was started
C12_Witness ==
    /\ variant = "allow"
    /\ Logged("call", "validateTemplate")
    /\ SuppliedTemplate = << "f","o","o" >>
    /\ template = Str(S_base)
    /\ Logged("print", FallbackWarning)
    /\ FetchInvoked

\* the coordinate given to degit, once it is called
Coordinate ==
    log[CHOOSE i \in DOMAIN log : log[i].ev = "call" /\ log[i].msg = "degit"].arg

\* C13: allow-list variant: whenever the warning "Falling back to 'base'"
\* is printed, the template handed to the fetch is "base".
C13_WarningNamesSubstitute ==
    (variant = "allow" /\ Logged("print", FallbackWarning)) =>
        /\ template = Str(S_base)
        /\ Logged("call", "degit") => Coordinate = S_coordAllow \o S_base

\* C14: allow-list variant: whenever the template question was shown and
\* the user selected s, the fetch is made for template s.
C14_SelectedTemplateFetched ==
    (/\ variant = "allow"
     /\ answers.template # Undefined
     /\ Logged("call", "degit")) =>
        Coordinate = S_coordAllow \o answers.template.s

\* String.prototype.endsWith
endsWith(s, p) ==
    Len(s) >= Len(p) /\ SubSeq(s, Len(s) - Len(p) + 1, Len(s)) = p

\* C15: confinement variant: the coordinate given to degit is derived from
\* the resolved template: a fixed namespace followed by the template name
\* (so runs that resolve different templates fetch different coordinates).
C15_CoordinateFromTemplate ==
    (variant = "confine" /\ Logged("call", "degit")) =>
        /\ endsWith(Coordinate, template.s)
        /\ Len(Coordinate) > Len(template.s)

\* C17: allow-list variant: after emitter.clone failed, the message of
\* that error is reported and the run exits with code 1, whether there was
\* nothing to clean up, the cleanup succeeded or the cleanup failed; while
\* the cleanup is awaited the run can still go on to that exit.
C17_FetchErrorReported ==
    (variant = "allow" /\ FetchFailed) =>
        /\ err \in FetchErrors
        /\ pc \in { "remove", "done" }
        /\ pc = "remove" =>
              /\ exitCode = "none"
              /\ \A ok \in BOOLEAN : ENABLED RemoveResultAllow(ok)
        /\ pc = "done" =>
              /\ exitCode = "1"
              /\ \E i \in DOMAIN log : log[i] = Out("Error details:", err.message)
              /\ \A i \in DOMAIN log :
                    log[i].msg = "Error details:" => log[i].arg = err.message
              /\ ~Logged("print", PromptErrorMessage(FALSE))

\* C17 witness: the cleanup failed, and the fetch error was still reported
C17_Witness ==
    /\ variant = "allow"
    /\ pc = "done"
    /\ LoggedRes("result", "fs.remove", "fail")
    /\ Logged("print", "Warning: Could not clean up directory")
    /\ log[Len(log)].msg \in { "Error details:", "Could not download template." }
    /\ exitCode = "1"

\* the steps of createProject the stage order allows: CollectingInput is
\* askName and askTemplate, Validating and Resolving are the step from
\* prompted, Guarding ends at access, Fetching is clone, RollingBack remove
StageSteps ==
    { << "askName", "askName" >>, << "askName", "askTemplate" >>,
      << "askName", "done" >>, << "askTemplate", "prompted" >>,
      << "askTemplate", "done" >>, << "prompted", "access" >>,
      << "prompted", "done" >>, << "access", "clone" >>,
      << "access", "done" >>, << "clone", "remove" >>,
      << "clone", "done" >>, << "remove", "done" >> }

\* the number of calls of emitter.clone in the log l
CloneCalls(l) ==
    Cardinality({ i \in DOMAIN l : l[i].ev = "call" /\ l[i].msg = "clone" })

\* C18: allow-list variant: every run follows CollectingInput -> Validating
\* -> Resolving -> Guarding -> Fetching -> {Succeeded | RollingBack ->
\* Failed}: emitter.clone is called at most once, only after the prompt
\* has completed and both guard checks have passed; RollingBack is entered
\* only from a failed fetch and Succeeded only from a successful one.
C18_StageOrder ==
    [][ variant = "allow" =>
          /\ << pc, pc' >> \in StageSteps
          /\ CloneCalls(log') <= 1
          /\ CloneCalls(log') > CloneCalls(log) =>
                /\ pc = "access" /\ pc' = "clone"
                /\ answers.projectName # Undefined \/ Truthy(projectName)
                /\ ~existsSync(fs, projectPath)
                /\ accessW(fs, pathDirname(projectPath))
          /\ pc' = "clone" => CloneCalls(log') = 1
          /\ pc' = "remove" =>
                /\ pc = "clone"
                /\ LoggedRes("result", "clone", "fail")'
          /\ (pc' = "done" /\ exitCode' = "0") =>
                /\ pc = "clone"
                /\ LoggedRes("result", "clone", "ok")'
      ]_vars

\* C18 witness: a run went through Fetching and RollingBack to Failed
C18_Witness ==
    /\ variant = "allow"
    /\ pc = "done"
    /\ exitCode = "1"
    /\ CloneCalls(log) = 1
    /\ FirstIndex("call", "fs.access") < FirstIndex("call", "clone")
    /\ FirstIndex("call", "clone") < FirstIndex("call", "fs.remove")

----------------------------------------------------------------------------
(* Claims about createProject, checked under SpecSignal and SpecRace *)

\* a termination signal ended the run during the fetch
Interrupted == Logged("signal", "SIGINT")

\* C19: allow-list variant: when a termination signal arrives during the
\* fetch, the rollback of a fetch failure is performed: the process does
\* not end with the partially populated destination still there.
C19_InterruptRollsBack ==
    (variant = "allow" /\ pc = "done" /\ Interrupted) =>
        ~existsSync(fs, projectPath)

\* another process created the destination after the existence check
OtherCreated == Logged("other", "mkdir")

\* C20: allow-list variant: rollback removes only what this run's fetch
\* created: a directory another process made at the destination after the
\* existence check keeps its content when the fetch fails.
C20_RollbackSparesOthers ==
    (variant = "allow" /\ OtherCreated) =>
        /\ existsSync(fs, projectPath)
        /\ pathJoin(projectPath, S_keep) \in DOMAIN fs

----------------------------------------------------------------------------
(* Claims about the pure functions, checked under SpecFn *)

\* C4: the project-name validate of the allow-list variant returns true for
\* exactly the strings that match ^[a-zA-Z0-9_-]+$ and have length <= 50,
\* and a message for every other string (leading or trailing spaces too).
C4_ValidateExactlyTheRegex ==
    call.fn = "validateNameAllow" =>
        /\ ~call.res.threw
        /\ (call.res.ret = "true") <=>
              (ProjectNameRegex(call.arg.s) /\ Len(call.arg.s) <= MaxNameLen)

\* C6: validateTemplate of the allow-list variant never raises and returns
\* a member of the allow-list for every input of every type: the trimmed,
\* lower-cased input when that is in the list, "base" in every other case.
C6_AllowListResult ==
    call.fn = "validateTemplateAllow" =>
        /\ ~call.res.threw
        /\ call.res.ret \in Range(AVAILABLE_TEMPLATES)
        /\ call.res.ret =
             IF /\ call.arg.t = "string"
                /\ toLowerCase(trim(call.arg.s)) \in Range(AVAILABLE_TEMPLATES)
             THEN toLowerCase(trim(call.arg.s))
             ELSE S_base

\* C6 witness: an allow-listed name in upper case came back lower-cased
C6_Witness ==
    /\ call.fn = "validateTemplateAllow"
    /\ call.arg = Str(<< "R","E","D","U","X" >>)
    /\ call.res.ret = S_redux

\* C7: validateTemplate of the confinement variant returns "base" for every
\* raw name that contains "..", a "/" or a NUL character, does not raise,
\* and gives the filesystem no path outside the templates root.
C7_CraftedNamesFallBack ==
    (/\ call.fn = "validateTemplateConfine"
     /\ call.arg.t = "string"
     /\ Crafted(call.arg.s)) =>
        /\ ~call.res.threw
        /\ call.res.ret = S_base
        /\ \A p \in call.res.touched : IsWithin(TemplatesRoot, p)

\* C7 witness: "../../etc" was validated and fell back
C7_Witness ==
    /\ call.fn = "validateTemplateConfine"
    /\ call.arg = Str(<< ".",".","/",".",".","/" >> \o S_etc)
    /\ call.res.ret = S_base

\* C8: whenever validateTemplate of the confinement variant returns a name
\* other than "base", the symlink-resolved templatesRoot/template-<name> is
\* an existing directory and a proper descendant of the symlink-resolved
\* templates root (never the root itself, never outside it).
C8_ProperDescendant ==
    (/\ call.fn = "validateTemplateConfine"
     /\ call.res.ret # S_base) =>
        LET rr == realpathSync(fs, TemplatesRoot)
            rs == realpathSync(fs, pathJoin(TemplatesRoot,
                                            S_template \o call.res.ret))
        IN  /\ ~rr.threw
            /\ ~rs.threw
            /\ fs[rs.path].kind = "dir"
            /\ IsWithin(rr.path, rs.path)
            /\ rs.path # rr.path

\* the raw value passes the syntactic tests of lines 23-27
SyntacticallyValid(raw) ==
    /\ raw.t = "string"
    /\ TemplateNameRegex(toLowerCase(trim(raw.s)))

\* C11 (as claimed): validateTemplate of the confinement variant is a pure
\* function of its raw argument: the result is the same whatever the
\* filesystem holds, it gives the filesystem no path and prints nothing.
C11_PureFunctionOfRaw ==
    call.fn = "validateTemplateConfine" =>
        /\ \A f \in TemplateLayouts :
              validateTemplateConfine(f, call.arg).ret = call.res.ret
        /\ call.res.touched = {}
        /\ call.res.found = << >>

\* C11 (amended): validateTemplate of the confinement variant never writes
\* the filesystem, and is syntactic only for the raw values that fail the
\* tests of lines 23-27: for those it returns "base", reads no path and
\* prints nothing; for every other raw value it reads the templates root
\* and the template directory, and returns "base" or the normalised name.
C11_SyntacticOnlyForInvalidNames ==
    call.fn = "validateTemplateConfine" =>
        /\ fs = fs0
        /\ ~call.res.threw
        /\ ~SyntacticallyValid(call.arg) =>
              /\ call.res.ret = S_base
              /\ call.res.touched = {}
              /\ call.res.found = << >>
        /\ SyntacticallyValid(call.arg) =>
              /\ TemplatesRoot \in call.res.touched
              /\ pathJoin(TemplatesRoot,
                          S_template \o toLowerCase(trim(call.arg.s)))
                    \in call.res.touched
              /\ call.res.ret \in { S_base, toLowerCase(trim(call.arg.s)) }

\* C11 witness: a name that passes the syntactic tests made the function
\* read the filesystem and print the lifecycle warning
C11_Witness ==
    /\ call.fn = "validateTemplateConfine"
    /\ call.arg = Str(<< "a" >>)
    /\ call.res.ret = << "a" >>
    /\ call.res.touched # {}
    /\ call.res.found # << >>

\* the manifest found in the directory that template-<name> resolves to:
\* its parsed content, or NoJson when there is none that parses
ManifestOf(f, name) ==
    LET rs == realpathSync(f, pathJoin(TemplatesRoot, S_template \o name))
        pkg == realpathSync(f, pathJoin(rs.path, S_packageJson))
    IN  IF rs.threw \/ pkg.threw THEN NoJson
        ELSE IF f[pkg.path].kind # "file" THEN NoJson
        ELSE f[pkg.path].json

\* C16: validateTemplate of the confinement variant: the lifecycle scan is
\* advisory.  For a template that passes the confinement test and whose
\* manifest parses, the name is returned whether or not the script table
\* declares hooks, and the warning is printed exactly when one of
\* preinstall, install, postinstall, prepublish, prepare is a key of the
\* script table, listing exactly those keys (each once).
C16_LifecycleScanAdvisory ==
    (/\ call.fn = "validateTemplateConfine"
     /\ SyntacticallyValid(call.arg)
     /\ ManifestOf(fs, toLowerCase(trim(call.arg.s))).parse \in { "null", "object" }
     /\ ~realpathSync(fs, TemplatesRoot).threw
     /\ LET name == toLowerCase(trim(call.arg.s))
            rs == realpathSync(fs, pathJoin(TemplatesRoot, S_template \o name))
        IN  /\ ~rs.threw
            /\ ~startsWith(pathRelative(realpathSync(fs, TemplatesRoot).path,
                                        rs.path), S_dotdot)
            /\ fs[rs.path].kind = "dir") =>
        LET name == toLowerCase(trim(call.arg.s))
            json == ManifestOf(fs, name)
            hooks == IF json.hasScripts
                     THEN json.scripts \cap Range(lifecycleKeys)
                     ELSE {}
        IN  /\ call.res.ret = name
            /\ Range(call.res.found) = hooks
            /\ Len(call.res.found) = Cardinality(hooks)
            /\ (call.res.found # << >>) <=> (hooks # {})

\* C16 witness: a template declaring preinstall, prepare and build was
\* accepted, with a warning that lists preinstall and prepare
C16_Witness ==
    /\ call.fn = "validateTemplateConfine"
    /\ call.arg = Str(<< "a" >>)
    /\ ManifestOf(fs, << "a" >>).scripts = { "prepare", "preinstall", "build" }
    /\ call.res.ret = << "a" >>
    /\ call.res.found = << "preinstall", "prepare" >>

====
